---- MODULE Spec2Model ----
(***************************************************************************)
(* Model of analysis.py: the COVID-19 time-series script.  One run is      *)
(* parse_args, get_data, then the plot functions in the order of the main  *)
(* block.  A pandas cell is a set with at most one element: {v} is the     *)
(* value v and {} is NaN, so that arithmetic and comparisons propagate     *)
(* missing values the way pandas does.  A date is the number of days since *)
(* the first date column of the upstream files.                            *)
(***************************************************************************)
EXTENDS Integers, Sequences, FiniteSets, TLC

VARIABLES pc, args, data, raised, ax, title, num_cases, table

vars == <<pc, args, data, raised, ax, title, num_cases, table>>

\* ---------------------------------------------------------------- bounds
\* largest number of cells (rows times date columns) of an upstream file
MaxCells == 2

\* ------------------------------------------------------- values and cells
NaN == {}

None == "None"

Cell(v) == {v}

\* a missing cell counts as 0 in a sum (skipna), otherwise its value
CellValue(c) == IF c = NaN THEN 0 ELSE CHOOSE v \in c : TRUE

\* result < n and result >= n: both are False on NaN
Lt(c, n) == \E v \in c : v < n

Ge(c, n) == \E v \in c : v >= n

Idx(s) == [i \in 1..Len(s) |-> i]

Max(a, b) == IF a >= b THEN a ELSE b

RECURSIVE SortedSeq(_)
SortedSeq(S) ==
    IF S = {} THEN <<>>
    ELSE LET m == CHOOSE x \in S : \A y \in S : x <= y
         IN <<m>> \o SortedSeq(S \ {m})

\* --------------------------------------------------------- program constants
case_types == <<"confirmed", "recovered", "death">>

countries == <<"US", "United Kingdom", "Singapore", "China", "Italy",
               "Korea, South", "Germany", "Iran", "Vietnam", "Slovakia">>

NConfirmed == 100

NDeath == 25

\* ------------------------------------------------------------ upstream files
\* rows of the upstream files: province/state, country/region, lat, long
GeoKeys == << <<NaN, Cell("US"), Cell(37), Cell(-95)>>,
             <<Cell("Hubei"), Cell("China"), Cell(30), Cell(112)>>,
             <<Cell("Beijing"), Cell("China"), Cell(40), Cell(116)>> >>

\* the identifying columns of a file of r rows, grouped by geography
KeySeqs(r) ==
    {[i \in 1..r |-> GeoKeys[f[i]]] :
        f \in {g \in [1..r -> 1..Len(GeoKeys)] :
                  \A i \in 1..(r - 1) : g[i] <= g[i + 1]}}

NaNKey == <<NaN, NaN, NaN, NaN>>

\* the command lines: --country, with or without --province
ArgChoices == {[country |-> "US", province |-> None],
               [country |-> "China", province |-> None],
               [country |-> "China", province |-> "Hubei"]}

ConfirmedCells == {Cell(30), Cell(120)}

RecoveredCells == {Cell(0), Cell(30)}

DeathCells == {Cell(0), Cell(30)}

Shapes == {s \in (1..MaxCells) \X (1..MaxCells) : s[1] * s[2] <= MaxCells}

\* the table read from one file: identifying columns, date columns, counts
ReadCsv(keys, d, cells) ==
    [id |-> keys, dates |-> [j \in 1..d |-> j], val |-> cells]

DropLastRow(t) ==
    [id |-> SubSeq(t.id, 1, Len(t.id) - 1), dates |-> t.dates,
     val |-> SubSeq(t.val, 1, Len(t.val) - 1)]

DropLastDate(t) ==
    [id |-> t.id, dates |-> SubSeq(t.dates, 1, Len(t.dates) - 1),
     val |-> [i \in 1..Len(t.val) |-> SubSeq(t.val[i], 1, Len(t.dates) - 1)]]

ReverseRows(t) ==
    [id |-> [i \in 1..Len(t.id) |-> t.id[Len(t.id) + 1 - i]], dates |-> t.dates,
     val |-> [i \in 1..Len(t.val) |-> t.val[Len(t.val) + 1 - i]]]

\* the files need not agree: one of them may lack the last row or the last
\* date of the others, or list its rows in another order
Skews == {<<"none", "same">>, <<"confirmed", "rows">>, <<"recovered", "order">>,
          <<"confirmed", "dates">>, <<"death", "dates">>}

Skewed(t, how) ==
    CASE how = "rows" /\ Len(t.id) >= 2 -> DropLastRow(t)
      [] how = "dates" /\ Len(t.dates) >= 2 -> DropLastDate(t)
      [] how = "order" -> ReverseRows(t)
      [] OTHER -> t

\* ------------------------------------------------------------ pure functions
get_dates(d, case_type) == d[case_type].dates

\* the rows selected by the boolean condition, in table order
MatchRows(t, country, province) ==
    SelectSeq(Idx(t.id),
              LAMBDA i : /\ t.id[i][2] = Cell(country)
                         /\ (province # None => t.id[i][1] = Cell(province)))

RECURSIVE SumCells(_, _, _)
SumCells(t, rows, j) ==
    IF rows = <<>> THEN 0
    ELSE CellValue(t.val[Head(rows)][j]) + SumCells(t, Tail(rows), j)

ColumnSumsAllRows(t, rows) ==
    [j \in 1..Len(t.dates) |-> Cell(SumCells(t, Idx(t.id), j))]

\* .iloc[:, 4:].sum(axis=0): one sum per date column, over the selected rows
ColumnSums(t, rows) ==
    [j \in 1..Len(t.dates) |-> Cell(SumCells(t, rows, j))]

FlattenFirstRow(t, rows) == IF rows = <<>> THEN <<>> ELSE t.val[Head(rows)]

\* .values.flatten(): the selected rows end to end
RECURSIVE Flatten(_, _)
Flatten(t, rows) ==
    IF rows = <<>> THEN <<>>
    ELSE t.val[Head(rows)] \o Flatten(t, Tail(rows))

get_num_cases(d, case_type, country, province) ==
    IF province # None
    THEN Flatten(d[case_type], MatchRows(d[case_type], country, province))
    ELSE ColumnSums(d[case_type], MatchRows(d[case_type], country, None))

get_title(country, province) ==
    IF province = None THEN country ELSE province \o " (" \o country \o ")"

\* ---- get_first
NoTable(err) ==
    [raised |-> err, none |-> TRUE, index |-> <<>>, num_days |-> <<>>,
     cases |-> <<>>]

AllBelowOffByOne(result, n) ==
    Cardinality({j \in 1..Len(result) : Lt(result[j], n)}) = Len(result) + 1

\* sum(result < n) == len(result)
AllBelow(result, n) ==
    Cardinality({j \in 1..Len(result) : Lt(result[j], n)}) = Len(result)

\* result.loc[result >= n]: the positions kept
AtLeast(result, n) == SelectSeq(Idx(result), LAMBDA j : Ge(result[j], n))

NumDaysFromOne(len) == [k \in 1..len |-> k]

\* pd.Series(range(0, len(result)))
NumDays(len) == [k \in 1..len |-> k - 1]

FirstFrame(dates, result, n) ==
    LET keep == AtLeast(result, n)
    IN [raised |-> "none", none |-> FALSE,
        index |-> [k \in 1..Len(keep) |-> dates[keep[k]]],
        num_days |-> NumDays(Len(keep)),
        cases |-> [k \in 1..Len(keep) |-> result[keep[k]]]]

get_first(d, n, case_type, country, province) ==
    LET t == d[case_type]
        rows == MatchRows(t, country, province)
    IN IF province # None /\ rows = <<>>
       THEN NoTable("IndexError")
       ELSE LET result == IF province = None THEN ColumnSums(t, rows)
                          ELSE t.val[rows[1]]
            IN IF AllBelow(result, n) THEN NoTable("none")
               ELSE FirstFrame(t.dates, result, n)

\* ---- frames: alignment of pandas arithmetic and concat
HasDate(t, date) == \E j \in 1..Len(t.dates) : t.dates[j] = date

At(t, i, date) ==
    IF i \in 1..Len(t.val) /\ HasDate(t, date)
    THEN t.val[i][CHOOSE j \in 1..Len(t.dates) : t.dates[j] = date]
    ELSE NaN

\* outer join of two column indexes
UnionIndex(a, b) ==
    IF a = b THEN a
    ELSE SortedSeq({a[j] : j \in 1..Len(a)} \cup {b[j] : j \in 1..Len(b)})

InnerRows(a, b) == IF a <= b THEN a ELSE b

\* outer join of two RangeIndex row indexes of lengths a and b
UnionRows(a, b) == Max(a, b)

MinusCell(x, y) == {v - w : v \in x, w \in y}

FrameSub(A, B) ==
    LET cols == UnionIndex(A.dates, B.dates)
        n == UnionRows(Len(A.val), Len(B.val))
    IN [dates |-> cols,
        val |-> [i \in 1..n |-> [j \in 1..Len(cols) |->
                    MinusCell(At(A, i, cols[j]), At(B, i, cols[j]))]]]

\* pd.concat([identifier, frame], axis=1)
Concat(identifier, frame) ==
    LET n == UnionRows(Len(identifier), Len(frame.val))
    IN [id |-> [i \in 1..n |-> IF i <= Len(identifier) THEN identifier[i]
                                ELSE NaNKey],
        dates |-> frame.dates,
        val |-> [i \in 1..n |-> [j \in 1..Len(frame.dates) |->
                    At(frame, i, frame.dates[j])]]]

ActiveFrameNoDeath(d) == FrameSub(d["confirmed"], d["recovered"])

ActiveFrame(d) == FrameSub(FrameSub(d["confirmed"], d["recovered"]), d["death"])

ActiveTable(d) == Concat(d["confirmed"].id, ActiveFrame(d))

DailyCellClamped(c, i, j) ==
    IF j = 1 THEN c.val[i][1]
    ELSE {Max(0, v) : v \in MinusCell(c.val[i][j], c.val[i][j - 1])}

\* the first date column as it is, then column i minus column i-1
DailyCell(c, i, j) ==
    IF j = 1 THEN c.val[i][1] ELSE MinusCell(c.val[i][j], c.val[i][j - 1])

DailyNewTable(d) ==
    LET c == d["confirmed"]
    IN Concat(c.id, [dates |-> c.dates,
                     val |-> [i \in 1..Len(c.val) |->
                                [j \in 1..Len(c.dates) |-> DailyCell(c, i, j)]]])

StoreTableOverConfirmed(d, name, t) ==
    [k \in DOMAIN d \cup {name} |-> IF k \in {name, "confirmed"} THEN t ELSE d[k]]

\* data[name] = frame
StoreTable(d, name, t) ==
    [k \in DOMAIN d \cup {name} |-> IF k = name THEN t ELSE d[k]]

\* ---- drawing: ax.plot / ax.bar need x and y of one length, and the
\* annotation reads the last element of both
DrawError(x, y) ==
    IF Len(x) # Len(y) THEN "ValueError"
    ELSE IF Len(y) = 0 THEN "IndexError" ELSE "none"

Line(label, x, y) == [label |-> label, x |-> x, y |-> y]

\* the outcome of one plot function's drawing: what was raised, the lines
\* drawn before it, and the last value returned by get_num_cases
SeriesOf(d, case_type, country, province) ==
    [x |-> get_dates(d, case_type),
     y |-> get_num_cases(d, case_type, country, province)]

\* the loop of plot_case_by_country over the sequence kinds, up to the first
\* kind whose drawing fails
DrawKinds(d, kinds, country, province) ==
    LET s == [k \in 1..Len(kinds) |-> SeriesOf(d, kinds[k], country, province)]
        err == [k \in 1..Len(kinds) |-> DrawError(s[k].x, s[k].y)]
        bad == {k \in 1..Len(kinds) : err[k] # "none"}
        last == IF bad = {} THEN Len(kinds)
                ELSE CHOOSE k \in bad : \A l \in bad : k <= l
        drawn == IF bad # {} /\ err[last] = "ValueError" THEN last - 1 ELSE last
    IN [raised |-> IF bad = {} THEN "none" ELSE err[last],
        ax |-> [k \in 1..drawn |-> Line(kinds[k], s[k].x, s[k].y)],
        num_cases |-> s[last].y]

\* the line plot_first and plot_compare_first draw for one table
FirstLine(label, t) == Line(label, t.num_days, t.cases)

PlotFirstTableOfProvince(d, n, case_type, country, province) ==
    get_first(d, n, case_type, country, province)

\* table = get_first(data, n, case_type, country, None) in plot_first
PlotFirstTable(d, n, case_type, country, province) ==
    get_first(d, n, case_type, country, None)

\* the loop of plot_compare_first: the tables of the countries, the lines of
\* those that are not None, up to the first country whose annotation fails
CompareLoop(d, n, case_type) ==
    LET t == [k \in 1..Len(countries) |->
                get_first(d, n, case_type, countries[k], None)]
        bad == {k \in 1..Len(countries) : ~t[k].none /\ Len(t[k].cases) = 0}
        last == IF bad = {} THEN Len(countries)
                ELSE CHOOSE k \in bad : \A l \in bad : k <= l
        shown == SelectSeq([k \in 1..last |-> k], LAMBDA k : ~t[k].none)
    IN [raised |-> IF bad = {} THEN "none" ELSE "IndexError",
        ax |-> [m \in 1..Len(shown) |-> FirstLine(countries[shown[m]], t[shown[m]])],
        table |-> t[last]]

\* ------------------------------------------------------------------ the run
EmptyDict == [k \in {} |-> {}]

Init ==
    /\ pc = "get_data"
    /\ args \in ArgChoices
    /\ data = EmptyDict
    /\ raised = "none"
    /\ ax = <<>>
    /\ title = ""
    /\ num_cases = <<>>
    /\ table = NoTable("none")

Goto(err, next) ==
    /\ raised' = err
    /\ pc' = IF err = "none" THEN next ELSE "aborted"

get_data ==
    /\ pc = "get_data"
    /\ \E s \in Shapes, skew \in Skews :
       \E keys \in KeySeqs(s[1]),
          c \in [1..s[1] -> [1..s[2] -> ConfirmedCells]],
          r \in [1..s[1] -> [1..s[2] -> RecoveredCells]],
          dth \in [1..s[1] -> [1..s[2] -> DeathCells]] :
            data' = [k \in {"confirmed", "recovered", "death"} |->
                       LET t == ReadCsv(keys, s[2],
                                        CASE k = "confirmed" -> c
                                          [] k = "recovered" -> r
                                          [] OTHER -> dth)
                       IN IF k = skew[1] THEN Skewed(t, skew[2]) ELSE t]
    /\ pc' = "plot_case_by_country"
    /\ UNCHANGED <<args, raised, ax, title, num_cases, table>>

plot_case_by_country ==
    /\ pc = "plot_case_by_country"
    /\ \E out \in {DrawKinds(data, case_types, args.country, args.province)} :
          /\ ax' = out.ax
          /\ num_cases' = out.num_cases
          /\ title' = IF out.raised = "none"
                      THEN get_title(args.country, args.province) ELSE title
          /\ Goto(out.raised, "plot_active_cases")
    /\ UNCHANGED <<args, data, table>>

plot_active_cases ==
    /\ pc = "plot_active_cases"
    /\ data' = StoreTable(data, "active", ActiveTable(data))
    /\ \E out \in {DrawKinds(data', <<"active">>, args.country, args.province)} :
          /\ ax' = out.ax
          /\ num_cases' = out.num_cases
          /\ title' = IF out.raised = "none"
                      THEN get_title(args.country, args.province) ELSE title
          /\ Goto(out.raised, "plot_new_cases")
    /\ UNCHANGED <<args, table>>

plot_new_cases ==
    /\ pc = "plot_new_cases"
    /\ data' = StoreTable(data, "daily_new", DailyNewTable(data))
    /\ \E out \in {DrawKinds(data', <<"daily_new">>, args.country, args.province)} :
          /\ ax' = out.ax
          /\ num_cases' = out.num_cases
          /\ title' = IF out.raised = "none"
                      THEN get_title(args.country, args.province) ELSE title
          /\ Goto(out.raised, "plot_first")
    /\ UNCHANGED <<args, table>>

plot_first ==
    /\ pc = "plot_first"
    /\ \E t \in {PlotFirstTable(data, NConfirmed, "confirmed", args.country,
                                args.province)} :
          /\ table' = t
          /\ ax' = IF t.none THEN <<>> ELSE <<FirstLine("", t)>>
          /\ title' = IF t.raised = "none"
                      THEN get_title(args.country, args.province) ELSE title
          /\ Goto(t.raised, "plot_compare_first_confirmed")
    /\ UNCHANGED <<args, data, num_cases>>

plot_compare_first(at, n, case_type, next) ==
    /\ pc = at
    /\ \E out \in {CompareLoop(data, n, case_type)} :
          /\ table' = out.table
          /\ ax' = out.ax
          /\ title' = IF out.raised = "none" THEN "As of today" ELSE title
          /\ Goto(out.raised, next)
    /\ UNCHANGED <<args, data, num_cases>>

plot_compare_first_confirmed ==
    plot_compare_first("plot_compare_first_confirmed", NConfirmed, "confirmed",
                       "plot_compare_first_death")

plot_compare_first_death ==
    plot_compare_first("plot_compare_first_death", NDeath, "death",
                       "plot_compare_first_death_png")

plot_compare_first_death_png ==
    plot_compare_first("plot_compare_first_death_png", NDeath, "death", "done")

Next ==
    \/ get_data
    \/ plot_case_by_country
    \/ plot_active_cases
    \/ plot_new_cases
    \/ plot_first
    \/ plot_compare_first_confirmed
    \/ plot_compare_first_death
    \/ plot_compare_first_death_png

Spec == Init /\ [][Next]_vars

\* =================================================================== claims
\* Reference definitions, written from the statements of the claims and not
\* from the operators above.
RawTypes == {"confirmed", "recovered", "death"}

DerivedTypes == {"active", "daily_new"}

Loaded == RawTypes \subseteq DOMAIN data

\* the count in a cell of a raw table
Count(c) == CHOOSE v \in c : TRUE

CountryRows(t, country) == {i \in 1..Len(t.id) : t.id[i][2] = {country}}

ProvinceRows(t, country, province) ==
    {i \in CountryRows(t, country) : t.id[i][1] = {province}}

RECURSIVE RowSum(_, _, _)
RowSum(t, rows, j) ==
    IF rows = {} THEN 0
    ELSE LET i == CHOOSE r \in rows : TRUE
         IN Count(t.val[i][j]) + RowSum(t, rows \ {i}, j)

\* the whole-country series of a raw table, as integers
CountrySeries(t, country) ==
    [j \in 1..Len(t.dates) |-> RowSum(t, CountryRows(t, country), j)]

NonDecreasing(S) == \A j \in 1..(Len(S) - 1) : S[j] <= S[j + 1]

Reaches(S, n) == \E j \in 1..Len(S) : S[j] >= n

\* the first position from the left at which S is at least n
Crossing(S, n) ==
    CHOOSE k \in 1..Len(S) : S[k] >= n /\ \A j \in 1..(k - 1) : S[j] < n

Thresholds == {NDeath, 30, NConfirmed, 120}

ListedCountries == {countries[k] : k \in 1..Len(countries)}

\* the countries of the upstream rows, and one that no row has
SomeCountries == {"US", "China", "Italy"}

\* get_data has just returned: the tables are the ones of the whole run
AfterGetData == pc = "plot_case_by_country"

\* plot_active_cases has just returned
AfterPlotActive == pc = "plot_new_cases"

\* plot_new_cases has just returned
AfterPlotNew == pc = "plot_first"

\* plot_first has just returned
AfterPlotFirst == pc = "plot_compare_first_confirmed"

C1_Holds(t, S, n) ==
    (NonDecreasing(S) /\ Reaches(S, n)) =>
        /\ ~t.none
        /\ t.raised = "none"
        /\ Len(t.num_days) >= 1
        /\ t.num_days[1] = 0
        /\ t.cases[1] = {S[Crossing(S, n)]}

\* C1: for a non-decreasing whole-country series that reaches n, get_first
\* returns a table whose first row has num_days 0 and whose count there is
\* the first value of the series, from the left, that is at least n; so does
\* the table plot_first has drawn.
C1_FirstRowAtThreshold ==
    Loaded =>
      /\ AfterGetData =>
          \A ct \in RawTypes, country \in SomeCountries, n \in Thresholds :
            C1_Holds(get_first(data, n, ct, country, None),
                     CountrySeries(data[ct], country), n)
      /\ AfterPlotFirst =>
            C1_Holds(table, CountrySeries(data["confirmed"], args.country),
                     NConfirmed)

C1_Witness ==
    /\ AfterPlotFirst
    /\ LET S == CountrySeries(data["confirmed"], args.country)
       IN /\ NonDecreasing(S)
          /\ Reaches(S, NConfirmed)
          /\ Crossing(S, NConfirmed) > 1
    /\ ~table.none
    /\ table.num_days[1] = 0
    /\ table.cases[1] = {120}

\* C2: for every series that reaches n, also a non-monotonic one, the table
\* keeps every point from the first crossing k onward, unmodified, and the
\* point at position p has num_days p - k.
C2_KeepsAllFromCrossing ==
    (AfterPlotFirst /\ ~table.none) =>
        LET t == data["confirmed"]
            S == CountrySeries(t, args.country)
            k == Crossing(S, NConfirmed)
            kept == Len(S) - k + 1
        IN /\ table.cases = [m \in 1..kept |-> {S[k + m - 1]}]
           /\ table.num_days = [m \in 1..kept |-> m - 1]
           /\ table.index = [m \in 1..kept |-> t.dates[k + m - 1]]

AllUnder(S, n) == \A j \in 1..Len(S) : S[j] < n

C3_Compared(ct, n) ==
    /\ raised = "none"
    /\ \A m \in 1..Len(ax) :
          /\ ax[m].label \in ListedCountries
          /\ ~AllUnder(CountrySeries(data[ct], ax[m].label), n)

\* C3: when every value of the whole-country series is below n, get_first
\* returns None without raising, and plot_first and plot_compare_first draw
\* no line for that series and go on.
C3_NoAlignmentIsSkipped ==
    Loaded =>
      /\ AfterGetData =>
          \A ct \in RawTypes, country \in SomeCountries, n \in Thresholds :
            AllUnder(CountrySeries(data[ct], country), n) =>
                LET t == get_first(data, n, ct, country, None)
                IN t.none /\ t.raised = "none"
      /\ AfterPlotFirst =>
            (AllUnder(CountrySeries(data["confirmed"], args.country), NConfirmed)
                => table.none /\ ax = <<>> /\ raised = "none")
      /\ pc = "plot_compare_first_death" => C3_Compared("confirmed", NConfirmed)
      /\ pc \in {"plot_compare_first_death_png", "done"} =>
            C3_Compared("death", NDeath)

C3_Witness ==
    /\ pc = "plot_compare_first_death"
    /\ CountryRows(data["confirmed"], "US") # {}
    /\ AllUnder(CountrySeries(data["confirmed"], "US"), NConfirmed)
    /\ Len(ax) = 1
    /\ ax[1].label = "China"
    /\ raised = "none"

RECURSIVE RunningSum(_)
RunningSum(D) ==
    IF D = <<>> THEN <<>>
    ELSE LET front == RunningSum(SubSeq(D, 1, Len(D) - 1))
         IN Append(front, (IF front = <<>> THEN 0 ELSE front[Len(front)])
                          + D[Len(D)])

\* C4: daily_new is a left inverse of cumulative summation: each row of
\* daily_new is the sequence D whose running sum is the confirmed row, that
\* is D[1] = C[1] and D[j] = C[j] - C[j-1], negative entries kept.
C4_DailyNewLeftInverse ==
    AfterPlotNew =>
        LET c == data["confirmed"]
            new == data["daily_new"]
        IN /\ new.id = c.id
           /\ new.dates = c.dates
           /\ Len(new.val) = Len(c.val)
           /\ \A i \in 1..Len(c.val) :
                LET C == [j \in 1..Len(c.dates) |-> Count(c.val[i][j])]
                    D == [j \in 1..Len(c.dates) |-> Count(new.val[i][j])]
                IN /\ \A j \in 1..Len(c.dates) : new.val[i][j] = {D[j]}
                   /\ D[1] = C[1]
                   /\ \A j \in 2..Len(C) : D[j] = C[j] - C[j - 1]
                   /\ RunningSum(D) = C

C4_Witness ==
    /\ AfterPlotNew
    /\ data["confirmed"].val[1] = <<{120}, {30}>>
    /\ data["daily_new"].val[1] = <<{120}, {-90}>>

Aligned ==
    /\ data["recovered"].id = data["confirmed"].id
    /\ data["death"].id = data["confirmed"].id
    /\ data["recovered"].dates = data["confirmed"].dates
    /\ data["death"].dates = data["confirmed"].dates

\* C5: when the three tables share their rows and their date axis, every
\* cell of the active table is confirmed - recovered - death of that row and
\* date, negative results kept, and the identifying columns are those of
\* the confirmed table.
C5_ActiveElementwise ==
    (AfterPlotActive /\ Aligned) =>
        LET c == data["confirmed"]
            r == data["recovered"]
            dth == data["death"]
            a == data["active"]
        IN /\ a.id = c.id
           /\ a.dates = c.dates
           /\ Len(a.val) = Len(c.val)
           /\ \A i \in 1..Len(c.val) : \A j \in 1..Len(c.dates) :
                a.val[i][j] = {Count(c.val[i][j]) - Count(r.val[i][j])
                                 - Count(dth.val[i][j])}

C5_Witness ==
    /\ AfterPlotActive
    /\ Aligned
    /\ \E i \in 1..Len(data["active"].val) :
          \E j \in 1..Len(data["active"].dates) :
             /\ data["active"].val[i][j] = {-30}
             /\ data["confirmed"].val[i][j] = {30}

C6_SeriesIs(y, t, country) ==
    /\ Len(y) = Len(t.dates)
    /\ y = [j \in 1..Len(t.dates) |-> {CountrySeries(t, country)[j]}]
    /\ \A i \in 1..Len(t.id) : CountryRows(t, country) = {i} => y = t.val[i]

\* C6: without a province, get_num_cases returns one value per date of the
\* table's date axis, in order, each the sum over the rows of the country;
\* for a country with exactly one row that is the row's own series.
C6_CountrySum ==
    /\ (Loaded /\ AfterGetData) =>
          \A ct \in RawTypes, country \in SomeCountries :
             C6_SeriesIs(get_num_cases(data, ct, country, None), data[ct],
                         country)
    /\ (pc = "plot_active_cases" /\ args.province = None) =>
          /\ Len(ax) = Len(case_types)
          /\ \A k \in 1..Len(case_types) :
                /\ ax[k].x = data[case_types[k]].dates
                /\ C6_SeriesIs(ax[k].y, data[case_types[k]], args.country)
          /\ num_cases = ax[Len(ax)].y

C6_Witness ==
    /\ pc = "plot_active_cases"
    /\ args = [country |-> "China", province |-> None]
    /\ Cardinality(CountryRows(data["confirmed"], "China")) = 2
    /\ ax[1].y = <<{150}>>

AfterPlotCase == pc \in {"plot_active_cases", "aborted"} /\ DOMAIN data = RawTypes

Matches(t) ==
    IF args.province = None THEN CountryRows(t, args.country)
    ELSE ProvinceRows(t, args.country, args.province)

AbsentOrAmbiguous(t) ==
    IF args.province = None THEN Matches(t) = {}
    ELSE Cardinality(Matches(t)) # 1

RECURSIVE EndToEnd(_, _)
EndToEnd(t, rows) ==
    IF rows = {} THEN <<>>
    ELSE LET i == CHOOSE r \in rows : \A q \in rows : r <= q
         IN t.val[i] \o EndToEnd(t, rows \ {i})

Zeros(t) == [j \in 1..Len(t.dates) |-> {0}]

C7_Returned(y, t, country, province) ==
    IF province = None
    THEN CountryRows(t, country) = {} => y = Zeros(t)
    ELSE y = EndToEnd(t, ProvinceRows(t, country, province))

C7_FirstOfProvince(f, t, country, province, n) ==
    LET rows == ProvinceRows(t, country, province)
    IN IF rows = {} THEN f.raised = "IndexError"
       ELSE LET i == CHOOSE r \in rows : \A q \in rows : r <= q
                S == [j \in 1..Len(t.dates) |-> Count(t.val[i][j])]
            IN /\ f.raised = "none"
               /\ f.none = AllUnder(S, n)
               /\ Reaches(S, n) => f.cases[1] = {S[Crossing(S, n)]}

DateSet(t) == {t.dates[j] : j \in 1..Len(t.dates)}

HasCell(t, i, date) == i <= Len(t.val) /\ date \in DateSet(t)

CountAt(t, i, date) ==
    Count(t.val[i][CHOOSE j \in 1..Len(t.dates) : t.dates[j] = date])

C9_Step ==
    /\ Loaded =>
          /\ \A k \in DOMAIN data : k \in DOMAIN data' /\ data'[k] = data[k]
          /\ (DOMAIN data' \ DOMAIN data) \subseteq DerivedTypes
          /\ Cardinality(DOMAIN data' \ DOMAIN data) <= 1
    /\ pc' = "done" => DOMAIN data' = RawTypes \cup DerivedTypes

\* C9: over a whole run the raw tables are never modified once get_data
\* has built them, and the only change to the table collection is that
\* active and daily_new are each added once and never overwritten.
C9_TablesWriteOnce == [][C9_Step]_vars

C9_Witness ==
    /\ pc = "done"
    /\ DOMAIN data = RawTypes \cup DerivedTypes
    /\ data["active"] # data["confirmed"]
    /\ data["daily_new"] # data["confirmed"]

====
